---- MODULE Spec2Model ----
(***************************************************************************)
(* Model of src-tauri/src/main.rs: a tray application with two atomic      *)
(* flags (is_working, is_on_break), click handlers running on the UI/event *)
(* thread, timer threads spawned by start_timer, and the blocking webhook  *)
(* call send_req.                                                          *)
(*                                                                         *)
(* String literals of the source are Japanese; the module names them in    *)
(* ASCII:                                                                  *)
(*   "GYOMU_KAISHI"  = 業務開始   (attendance item, not working)           *)
(*   "GYOMU_SHURYO"  = 業務終了   (attendance item, working)               *)
(*   "KYUKEI"        = 休憩       (break_time item, not on break)          *)
(*   "KYUKEI_KAIJO"  = 休憩解除   (break_time item, on break)              *)
(*   <<"KYUKEI_CHU">>= 休憩中     (tray title during a break)              *)
(*   "GYOMU KAISHI"  = 業務 開始, "GYOMU SHURYO" = 業務 終了               *)
(*   "KYUKEI KAISHI" = 休憩 開始, "KYUKEI SHURYO" = 休憩 終了  (statuses)  *)
(* A tray title is a sequence of characters, so that format_duration is    *)
(* modelled digit by digit.                                                *)
(***************************************************************************)
EXTENDS Integers, Sequences, FiniteSets, TLC

\* ---- bounds ----
\* number of webhook requests (= handler invocations) explored
MaxPosts == 4
\* value at which a timer thread's seconds counter stops growing
MaxTime == 2
\* largest input of format_duration explored by FmtSpec
MaxSecs == 86399

\* one timer thread can be spawned by every second handler invocation
MaxThreads == (MaxPosts + 1) \div 2
TIDs == 1..MaxThreads

VARIABLES
  is_working,   \* AtomicBool, main.rs:30
  is_on_break,  \* AtomicBool, main.rs:31
  attTitle,     \* title of menu item "attendance"
  brkTitle,     \* title of menu item "break_time"
  attEnabled,   \* enablement of menu item "attendance"
  brkEnabled,   \* enablement of menu item "break_time"
  trayTitle,    \* title of the tray icon
  uiPc,         \* position of the UI/event thread
  new_value,    \* the local new_value of the running handler
  thr,          \* timer threads: pc and the local `time`
  session,      \* number of timer threads spawned so far (= work sessions)
  net,          \* state of the webhook request: none, pending, ok, err
  exited,       \* process::exit(0) was called
  posts,        \* history: statuses handed to send_req
  changes,      \* history: flag changes <<flag, new value>>
  attRun,       \* history: is_working as loaded by the current run of
                \* consecutive handle_attendance invocations
  lastTick,     \* history: seconds last written to the tray title by a
                \* timer thread in the current session (0 at its start)
  event,        \* history: the tray event that started the latest handler
  breakBase,    \* history: every timer thread's `time` when is_on_break
                \* was last set to true
  fmtIn,        \* input of format_duration (FmtSpec)
  fmtOut        \* output of format_duration (FmtSpec)

flags == <<is_working, is_on_break>>
menu == <<attTitle, brkTitle, attEnabled, brkEnabled>>
hist == <<posts, changes, attRun, lastTick>>
fmt == <<fmtIn, fmtOut>>
vars == <<is_working, is_on_break, attTitle, brkTitle, attEnabled, brkEnabled,
          trayTitle, uiPc, new_value, thr, session, net, exited,
          posts, changes, attRun, lastTick, event, breakBase, fmtIn, fmtOut>>

\* ---- format_duration (main.rs:165-170) ----
DigitChars == <<"0", "1", "2", "3", "4", "5", "6", "7", "8", "9">>
Digit(d) == DigitChars[d + 1]

RECURSIVE Decimal(_)
\* the decimal digits of n, most significant first
Decimal(n) == IF n < 10 THEN <<Digit(n)>>
              ELSE Decimal(n \div 10) \o <<Digit(n % 10)>>

\* format!("{:02}", n): decimal, padded with zeros on the left to width 2
Pad02(n) == IF Len(Decimal(n)) < 2 THEN <<"0">> \o Decimal(n) ELSE Decimal(n)

format_duration_wrongMinutes(secs) ==
  LET hours == secs \div 3600
      minutes == secs \div 60
      seconds == secs % 60
  IN Pad02(hours) \o <<":">> \o Pad02(minutes) \o <<":">> \o Pad02(seconds)

format_duration(secs) ==
  LET hours == secs \div 3600
      minutes == (secs % 3600) \div 60
      seconds == secs % 60
  IN Pad02(hours) \o <<":">> \o Pad02(minutes) \o <<":">> \o Pad02(seconds)

NoOut == <<"none">>
EmptyTitle == <<>>
BreakTitle == <<"KYUKEI_CHU">>

\* ---- initial state (main.rs:18-31) ----
NoThread == [pc |-> "unborn", time |-> 0]

MainInit ==
  /\ is_working = FALSE
  /\ is_on_break = FALSE
  /\ attTitle = "GYOMU_KAISHI"
  /\ brkTitle = "KYUKEI"
  /\ attEnabled = TRUE
  /\ brkEnabled = FALSE
  /\ trayTitle = EmptyTitle
  /\ uiPc = "idle"
  /\ new_value = FALSE
  /\ thr = [t \in TIDs |-> NoThread]
  /\ session = 0
  /\ net = "none"
  /\ exited = FALSE
  /\ posts = <<>>
  /\ changes = <<>>
  /\ attRun = <<>>
  /\ lastTick = 0
  /\ event = "none"
  /\ breakBase = [t \in TIDs |-> 0]

Init == MainInit /\ fmtIn = 0 /\ fmtOut = NoOut

\* ---- the event callback (main.rs:40-63) ----
\* the event loop hands an event to the callback only between two handlers
CanDispatch == uiPc = "idle" /\ ~exited /\ Len(posts) < MaxPosts

EnterAttendance ==
  /\ uiPc' = "att_load"
  /\ UNCHANGED attRun

EnterBreakTime ==
  /\ uiPc' = "brk_load"
  /\ attRun' = <<>>

handle_tray_left_click_alwaysAttendance ==
  /\ CanDispatch
  /\ EnterAttendance
  /\ event' = "LeftClick"
  /\ UNCHANGED <<flags, menu, trayTitle, new_value, thr, session, net, exited,
                 posts, changes, lastTick, fmt, breakBase>>

handle_tray_left_click_inverted ==
  /\ CanDispatch
  /\ IF is_on_break THEN EnterAttendance ELSE EnterBreakTime
  /\ event' = "LeftClick"
  /\ UNCHANGED <<flags, menu, trayTitle, new_value, thr, session, net, exited,
                 posts, changes, lastTick, fmt, breakBase>>

\* SystemTrayEvent::LeftClick (main.rs:46-48, 69-79)
handle_tray_left_click ==
  /\ CanDispatch
  /\ IF is_on_break THEN EnterBreakTime ELSE EnterAttendance
  /\ event' = "LeftClick"
  /\ UNCHANGED <<flags, menu, trayTitle, new_value, thr, session, net, exited,
                 posts, changes, lastTick, fmt, breakBase>>

\* MenuItemClick "attendance" (main.rs:53-55); the menu delivers clicks of
\* enabled items only
click_attendance ==
  /\ CanDispatch
  /\ attEnabled
  /\ EnterAttendance
  /\ event' = "attendance"
  /\ UNCHANGED <<flags, menu, trayTitle, new_value, thr, session, net, exited,
                 posts, changes, lastTick, fmt, breakBase>>

\* MenuItemClick "break_time" (main.rs:56-58)
click_break_time ==
  /\ CanDispatch
  /\ brkEnabled
  /\ EnterBreakTime
  /\ event' = "break_time"
  /\ UNCHANGED <<flags, menu, trayTitle, new_value, thr, session, net, exited,
                 posts, changes, lastTick, fmt, breakBase>>

\* MenuItemClick "quit" (main.rs:50-52): the process ends, and its threads
\* with it
click_quit ==
  /\ uiPc = "idle"
  /\ ~exited
  /\ exited' = TRUE
  /\ thr' = [t \in TIDs |->
               IF thr[t].pc = "unborn" THEN thr[t]
               ELSE [thr[t] EXCEPT !.pc = "done"]]
  /\ UNCHANGED <<flags, menu, trayTitle, uiPc, new_value, session, net,
                 hist, fmt, event, breakBase>>

on_system_tray_event ==
  \/ handle_tray_left_click
  \/ click_attendance
  \/ click_break_time
  \/ click_quit

\* ---- send_req (main.rs:172-184) ----
\* #[tokio::main] makes send_req a blocking function: the caller's thread
\* builds a runtime and waits in it until the request has completed or failed.
\* The request goes out once (line 176) ...
send_req(statu) ==
  /\ posts' = Append(posts, statu)
  /\ net' = "pending"
  /\ uiPc' = "send_wait"

send_req_return_retrying ==
  /\ uiPc = "send_wait"
  /\ \/ net' = "ok" /\ uiPc' = "idle" /\ posts' = posts
     \/ Len(posts) <= MaxPosts /\ net' = "pending" /\ uiPc' = "send_wait"
        /\ posts' = Append(posts, posts[Len(posts)])
  /\ UNCHANGED <<flags, menu, trayTitle, new_value, thr, session, exited,
                 changes, attRun, lastTick, fmt, event, breakBase>>

\* ... and send_req returns Ok(()) after the body was read (lines 176-183) or
\* the error of `?` (lines 176, 179); every caller drops the result (`let _`)
send_req_return ==
  /\ uiPc = "send_wait"
  /\ \E r \in {"ok", "err"} : net' = r
  /\ uiPc' = "idle"
  /\ UNCHANGED <<flags, menu, trayTitle, new_value, thr, session, exited,
                 hist, fmt, event, breakBase>>

\* ---- handle_attendance (main.rs:82-113) ----
\* line 84
att_load ==
  /\ uiPc = "att_load"
  /\ new_value' = ~is_working
  /\ attRun' = Append(attRun, is_working)
  /\ uiPc' = "att_store"
  /\ UNCHANGED <<flags, menu, trayTitle, thr, session, net, exited,
                 posts, changes, lastTick, fmt, event, breakBase>>

att_store_alwaysTrue ==
  /\ uiPc = "att_store"
  /\ is_working' = TRUE
  /\ changes' = IF is_working # TRUE
                THEN Append(changes, <<"is_working", TRUE>>)
                ELSE changes
  /\ uiPc' = "att_title"
  /\ UNCHANGED <<is_on_break, menu, trayTitle, new_value, thr, session, net,
                 exited, posts, attRun, lastTick, fmt, event, breakBase>>

\* line 85
att_store ==
  /\ uiPc = "att_store"
  /\ is_working' = new_value
  /\ changes' = IF new_value # is_working
                THEN Append(changes, <<"is_working", new_value>>)
                ELSE changes
  /\ uiPc' = "att_title"
  /\ UNCHANGED <<is_on_break, menu, trayTitle, new_value, thr, session, net,
                 exited, posts, attRun, lastTick, fmt, event, breakBase>>

att_title_swapped ==
  /\ uiPc = "att_title"
  /\ attTitle' = IF new_value THEN "GYOMU_KAISHI" ELSE "GYOMU_SHURYO"
  /\ uiPc' = IF new_value THEN "att_spawn" ELSE "att_disable_brk"
  /\ UNCHANGED <<flags, brkTitle, attEnabled, brkEnabled, trayTitle,
                 new_value, thr, session, net, exited, hist, fmt,
                 event, breakBase>>

\* lines 88-97
att_title ==
  /\ uiPc = "att_title"
  /\ attTitle' = IF new_value THEN "GYOMU_SHURYO" ELSE "GYOMU_KAISHI"
  /\ uiPc' = IF new_value THEN "att_spawn" ELSE "att_disable_brk"
  /\ UNCHANGED <<flags, brkTitle, attEnabled, brkEnabled, trayTitle,
                 new_value, thr, session, net, exited, hist, fmt,
                 event, breakBase>>

\* line 98 and start_timer, lines 142-145: a new thread with time = 0
start_timer ==
  /\ uiPc = "att_spawn"
  /\ session' = session + 1
  /\ thr' = [thr EXCEPT ![session + 1] = [pc |-> "check_working", time |-> 0]]
  /\ lastTick' = 0
  /\ uiPc' = "att_enable_brk"
  /\ UNCHANGED <<flags, menu, trayTitle, new_value, net, exited,
                 posts, changes, attRun, fmt, event, breakBase>>

att_enable_brk_skipped ==
  /\ uiPc = "att_enable_brk"
  /\ uiPc' = "att_send_start"
  /\ UNCHANGED <<flags, menu, trayTitle, new_value, thr, session,
                 net, exited, hist, fmt, event, breakBase>>

\* lines 101-102
att_enable_brk ==
  /\ uiPc = "att_enable_brk"
  /\ brkEnabled' = TRUE
  /\ uiPc' = "att_send_start"
  /\ UNCHANGED <<flags, attTitle, brkTitle, attEnabled, trayTitle,
                 new_value, thr, session, net, exited, hist, fmt,
                 event, breakBase>>

att_send_start_wrongStatus ==
  /\ uiPc = "att_send_start"
  /\ send_req("GYOMU SHURYO")
  /\ UNCHANGED <<flags, menu, trayTitle, new_value, thr, session, exited,
                 changes, attRun, lastTick, fmt, event, breakBase>>

\* line 103
att_send_start ==
  /\ uiPc = "att_send_start"
  /\ send_req("GYOMU KAISHI")
  /\ UNCHANGED <<flags, menu, trayTitle, new_value, thr, session, exited,
                 changes, attRun, lastTick, fmt, event, breakBase>>

\* lines 106-107
att_disable_brk ==
  /\ uiPc = "att_disable_brk"
  /\ brkEnabled' = FALSE
  /\ uiPc' = "att_clear_tray"
  /\ UNCHANGED <<flags, attTitle, brkTitle, attEnabled, trayTitle,
                 new_value, thr, session, net, exited, hist, fmt,
                 event, breakBase>>

\* lines 109-110
att_clear_tray ==
  /\ uiPc = "att_clear_tray"
  /\ trayTitle' = EmptyTitle
  /\ uiPc' = "att_send_end"
  /\ UNCHANGED <<flags, menu, new_value, thr, session, net, exited,
                 hist, fmt, event, breakBase>>

\* line 111
att_send_end ==
  /\ uiPc = "att_send_end"
  /\ send_req("GYOMU SHURYO")
  /\ UNCHANGED <<flags, menu, trayTitle, new_value, thr, session, exited,
                 changes, attRun, lastTick, fmt, event, breakBase>>

handle_attendance ==
  \/ att_load
  \/ att_store
  \/ att_title
  \/ start_timer
  \/ att_enable_brk
  \/ att_send_start
  \/ att_disable_brk
  \/ att_clear_tray
  \/ att_send_end

\* ---- handle_break_time (main.rs:116-139) ----
\* line 117
brk_load ==
  /\ uiPc = "brk_load"
  /\ new_value' = ~is_on_break
  /\ uiPc' = "brk_store"
  /\ UNCHANGED <<flags, menu, trayTitle, thr, session, net, exited,
                 hist, fmt, event, breakBase>>

brk_store_alsoClearsWorking ==
  /\ uiPc = "brk_store"
  /\ is_on_break' = new_value
  /\ is_working' = ~new_value
  /\ changes' = IF new_value # is_on_break
                THEN Append(changes, <<"is_on_break", new_value>>)
                ELSE changes
  /\ breakBase' = IF new_value THEN [t \in TIDs |-> thr[t].time] ELSE breakBase
  /\ uiPc' = "brk_title"
  /\ UNCHANGED <<menu, trayTitle, new_value, thr, session, net,
                 exited, posts, attRun, lastTick, fmt, event>>

\* line 118
brk_store ==
  /\ uiPc = "brk_store"
  /\ is_on_break' = new_value
  /\ changes' = IF new_value # is_on_break
                THEN Append(changes, <<"is_on_break", new_value>>)
                ELSE changes
  /\ breakBase' = IF new_value THEN [t \in TIDs |-> thr[t].time] ELSE breakBase
  /\ uiPc' = "brk_title"
  /\ UNCHANGED <<is_working, menu, trayTitle, new_value, thr, session, net,
                 exited, posts, attRun, lastTick, fmt, event>>

\* lines 121-125
brk_title ==
  /\ uiPc = "brk_title"
  /\ brkTitle' = IF new_value THEN "KYUKEI_KAIJO" ELSE "KYUKEI"
  /\ uiPc' = IF new_value THEN "brk_set_tray" ELSE "brk_enable_att"
  /\ UNCHANGED <<flags, attTitle, attEnabled, brkEnabled, trayTitle,
                 new_value, thr, session, net, exited, hist, fmt,
                 event, breakBase>>

\* lines 126-127
brk_set_tray ==
  /\ uiPc = "brk_set_tray"
  /\ trayTitle' = BreakTitle
  /\ uiPc' = "brk_disable_att"
  /\ UNCHANGED <<flags, menu, new_value, thr, session, net, exited,
                 hist, fmt, event, breakBase>>

brk_disable_att_skipped ==
  /\ uiPc = "brk_disable_att"
  /\ uiPc' = "brk_send_start"
  /\ UNCHANGED <<flags, menu, trayTitle, new_value, thr, session, net,
                 exited, hist, fmt, event, breakBase>>

\* lines 130-131
brk_disable_att ==
  /\ uiPc = "brk_disable_att"
  /\ attEnabled' = FALSE
  /\ uiPc' = "brk_send_start"
  /\ UNCHANGED <<flags, attTitle, brkTitle, brkEnabled, trayTitle,
                 new_value, thr, session, net, exited, hist, fmt,
                 event, breakBase>>

\* line 132
brk_send_start ==
  /\ uiPc = "brk_send_start"
  /\ send_req("KYUKEI KAISHI")
  /\ UNCHANGED <<flags, menu, trayTitle, new_value, thr, session, exited,
                 changes, attRun, lastTick, fmt, event, breakBase>>

\* lines 135-136
brk_enable_att ==
  /\ uiPc = "brk_enable_att"
  /\ attEnabled' = TRUE
  /\ uiPc' = "brk_send_end"
  /\ UNCHANGED <<flags, attTitle, brkTitle, brkEnabled, trayTitle,
                 new_value, thr, session, net, exited, hist, fmt,
                 event, breakBase>>

\* line 137
brk_send_end ==
  /\ uiPc = "brk_send_end"
  /\ send_req("KYUKEI SHURYO")
  /\ UNCHANGED <<flags, menu, trayTitle, new_value, thr, session, exited,
                 changes, attRun, lastTick, fmt, event, breakBase>>

handle_break_time ==
  \/ brk_load
  \/ brk_store
  \/ brk_title
  \/ brk_set_tray
  \/ brk_disable_att
  \/ brk_send_start
  \/ brk_enable_att
  \/ brk_send_end

\* ---- the timer thread (main.rs:144-161) ----
Alive(t) == thr[t].pc \notin {"unborn", "done"}

\* lines 147-149
timer_check_working(t) ==
  /\ thr[t].pc = "check_working"
  /\ thr' = [thr EXCEPT ![t].pc =
               IF ~is_working THEN "done" ELSE "check_break"]
  /\ UNCHANGED <<flags, menu, trayTitle, uiPc, new_value, session, net,
                 exited, hist, fmt, event, breakBase>>

timer_check_break_ignoresBreak(t) ==
  /\ thr[t].pc = "check_break"
  /\ thr' = [thr EXCEPT ![t].pc = "tick"]
  /\ UNCHANGED <<flags, menu, trayTitle, uiPc, new_value, session, net,
                 exited, hist, fmt, event, breakBase>>

\* lines 150-152: `continue` goes back to line 147 without sleeping
timer_check_break(t) ==
  /\ thr[t].pc = "check_break"
  /\ thr' = [thr EXCEPT ![t].pc =
               IF is_on_break THEN "check_working" ELSE "tick"]
  /\ UNCHANGED <<flags, menu, trayTitle, uiPc, new_value, session, net,
                 exited, hist, fmt, event, breakBase>>

\* lines 153-157; the counter is followed up to MaxTime and stays there
timer_tick(t) ==
  LET time == IF thr[t].time < MaxTime THEN thr[t].time + 1 ELSE thr[t].time
  IN /\ thr[t].pc = "tick"
     /\ thr' = [thr EXCEPT ![t] = [pc |-> "sleep", time |-> time]]
     /\ trayTitle' = format_duration(time)
     /\ lastTick' = time
     /\ UNCHANGED <<flags, menu, uiPc, new_value, session, net, exited,
                    posts, changes, attRun, fmt, event, breakBase>>

\* line 159
timer_sleep(t) ==
  /\ thr[t].pc = "sleep"
  /\ thr' = [thr EXCEPT ![t].pc = "check_working"]
  /\ UNCHANGED <<flags, menu, trayTitle, uiPc, new_value, session, net,
                 exited, hist, fmt, event, breakBase>>

timer_thread(t) ==
  \/ timer_check_working(t)
  \/ timer_check_break(t)
  \/ timer_tick(t)
  \/ timer_sleep(t)

\* ---- specifications ----
Next ==
  \/ on_system_tray_event
  \/ handle_attendance
  \/ handle_break_time
  \/ send_req_return
  \/ \E t \in TIDs : timer_thread(t)

Spec == Init /\ [][Next]_vars

\* the scheduler runs every timer thread that can take a step,
\* and the UI thread runs a handler up to its call of send_req
FairSpec ==
  /\ Spec
  /\ \A t \in TIDs : WF_vars(timer_thread(t))
  /\ WF_vars(handle_attendance \/ handle_break_time)

\* format_duration applied to every whole number of seconds up to MaxSecs
FmtInit == MainInit /\ fmtIn \in 0..MaxSecs /\ fmtOut = NoOut

Format ==
  /\ fmtOut = NoOut
  /\ fmtOut' = format_duration(fmtIn)
  /\ UNCHANGED <<flags, menu, trayTitle, uiPc, new_value, thr, session, net,
                 exited, hist, fmtIn, event, breakBase>>

FmtNext == Format

FmtSpec == FmtInit /\ [][FmtNext]_vars

TypeOK ==
  /\ is_working \in BOOLEAN /\ is_on_break \in BOOLEAN
  /\ attEnabled \in BOOLEAN /\ brkEnabled \in BOOLEAN
  /\ session \in 0..MaxThreads
  /\ net \in {"none", "pending", "ok", "err"}
  /\ Len(posts) <= MaxPosts
  /\ \A t \in TIDs : thr[t].time \in 0..MaxTime
  /\ event \in {"none", "LeftClick", "attendance", "break_time"}
  /\ \A t \in TIDs : breakBase[t] \in 0..MaxTime

\* ---- properties ----
Returned == uiPc = "idle"
AliveTimers == {t \in TIDs : Alive(t)}

\* C1: once a handler has returned, break_time is enabled exactly when
\* is_working is true and attendance is enabled exactly when is_on_break is
\* false.
C1_MenuEnablement ==
  Returned => (brkEnabled <=> is_working) /\ (attEnabled <=> ~is_on_break)

C1_Witness ==
  Returned /\ is_working /\ is_on_break /\ brkEnabled /\ ~attEnabled

\* C2: is_on_break implies is_working in every reachable state (the flag
\* states are idle, working, working+on-break), and a flag changes only in
\* the store of a click handler.
C2_ThreeStates ==
  /\ [](is_on_break => is_working)
  /\ [][flags' # flags => uiPc \in {"att_store", "brk_store"}]_vars

C2_Witness ==
  /\ Returned /\ ~is_working /\ ~is_on_break
  /\ changes = << <<"is_working", TRUE>>, <<"is_on_break", TRUE>>,
                  <<"is_on_break", FALSE>>, <<"is_working", FALSE>> >>

\* the status that names a flag change
StatusOf(c) ==
  CASE c = <<"is_working", TRUE>> -> "GYOMU KAISHI"
    [] c = <<"is_working", FALSE>> -> "GYOMU SHURYO"
    [] c = <<"is_on_break", TRUE>> -> "KYUKEI KAISHI"
    [] c = <<"is_on_break", FALSE>> -> "KYUKEI SHURYO"

\* C3: the i-th request carries the status that names the i-th flag change;
\* a handler that has reached send_req has issued one request per flag
\* change, and before that exactly the request of its own change is missing.
C3_PostPerTransition ==
  /\ Len(posts) <= Len(changes)
  /\ Len(changes) <= Len(posts) + 1
  /\ (uiPc \in {"idle", "send_wait"} => Len(posts) = Len(changes))
  /\ \A i \in 1..Len(posts) : posts[i] = StatusOf(changes[i])

C3_Witness ==
  /\ Returned
  /\ posts = <<"GYOMU KAISHI", "KYUKEI KAISHI", "KYUKEI SHURYO",
               "GYOMU SHURYO">>

\* C4 (as claimed): a timer thread that is alive when is_working is false
\* eventually exits.
C4_TimerTerminates ==
  \A t \in TIDs : (~is_working /\ Alive(t)) ~> ~Alive(t)

\* C5 (as claimed): at most one timer thread is alive, and an alive thread
\* belongs to the latest session.
C5_OneTimerPerSession ==
  /\ Cardinality(AliveTimers) <= 1
  /\ \A t \in AliveTimers : t = session

\* C6 (as claimed): a timer thread's write of the tray title shows one second
\* more than the previous timer write of the session (00:00:01 first).
C6_ElapsedCounter ==
  [][\A t \in TIDs :
       (thr[t].pc = "tick" /\ thr'[t].pc = "sleep" /\ thr[t].time < MaxTime)
         => trayTitle' = format_duration(lastTick + 1)]_vars

\* C7: while send_req waits no further request is made, and its return, Ok
\* or Err, changes no flag, no menu item and not the tray title.
C7_ErrorsDiscarded ==
  [][/\ uiPc = "send_wait" => posts' = posts
     /\ (uiPc = "send_wait" /\ uiPc' # "send_wait")
          => (uiPc' = "idle" /\ net' \in {"ok", "err"}
              /\ UNCHANGED <<flags, menu, trayTitle>>)]_vars

C7_Witness == Returned /\ net = "err" /\ Len(posts) = Len(changes) /\ is_working

\* C8 (as claimed): while a request is in flight the event callback can take
\* a left-click.
C8_UINotBlocked ==
  (net = "pending" /\ ~exited /\ Len(posts) < MaxPosts)
    => ENABLED handle_tray_left_click

\* C9: after two consecutive handle_attendance invocations is_working has the
\* value it had before the first of them.
C9_DoubleToggle ==
  (Returned /\ Len(attRun) >= 2) => is_working = attRun[Len(attRun) - 1]

C9_Witness == Returned /\ Len(attRun) >= 3

IsDigit(c) == \E d \in 0..9 : Digit(d) = c
DigitVal(c) == CHOOSE d \in 0..9 : Digit(d) = c
TwoDigits(s, i) == 10 * DigitVal(s[i]) + DigitVal(s[i + 1])

\* C10: format_duration(s) is hh:mm:ss, two digits each, with
\* hh = s div 3600, mm = (s mod 3600) div 60, ss = s mod 60.
C10_FormatDuration ==
  fmtOut # NoOut =>
    /\ Len(fmtOut) = 8
    /\ fmtOut[3] = ":" /\ fmtOut[6] = ":"
    /\ \A i \in {1, 2, 4, 5, 7, 8} : IsDigit(fmtOut[i])
    /\ TwoDigits(fmtOut, 1) = fmtIn \div 3600
    /\ TwoDigits(fmtOut, 4) = (fmtIn % 3600) \div 60
    /\ TwoDigits(fmtOut, 7) = fmtIn % 60
    /\ (fmtIn = 0 => fmtOut = <<"0", "0", ":", "0", "0", ":", "0", "0">>)
    /\ (fmtIn = 3661 => fmtOut = <<"0", "1", ":", "0", "1", ":", "0", "1">>)
    /\ (fmtIn = 86399 => fmtOut = <<"2", "3", ":", "5", "9", ":", "5", "9">>)

C10_Witness ==
  fmtIn = 3661 /\ fmtOut = <<"0", "1", ":", "0", "1", ":", "0", "1">>

\* C11: once a handler has returned the attendance item reads GYOMU_SHURYO
\* when is_working and GYOMU_KAISHI otherwise, the break_time item reads
\* KYUKEI_KAIJO when is_on_break and KYUKEI otherwise; before the first event
\* the labels are GYOMU_KAISHI and KYUKEI and break_time is disabled.
C11_MenuLabels ==
  /\ Returned =>
       /\ attTitle = (IF is_working THEN "GYOMU_SHURYO" ELSE "GYOMU_KAISHI")
       /\ brkTitle = (IF is_on_break THEN "KYUKEI_KAIJO" ELSE "KYUKEI")
  /\ event = "none" =>
       attTitle = "GYOMU_KAISHI" /\ brkTitle = "KYUKEI" /\ ~brkEnabled

C11_Witness ==
  /\ Returned /\ is_working /\ is_on_break
  /\ attTitle = "GYOMU_SHURYO" /\ brkTitle = "KYUKEI_KAIJO"

AttPcs == {"att_load", "att_store", "att_title", "att_spawn",
           "att_enable_brk", "att_send_start", "att_disable_brk",
           "att_clear_tray", "att_send_end"}
BrkPcs == {"brk_load", "brk_store", "brk_title", "brk_set_tray",
           "brk_disable_att", "brk_send_start", "brk_enable_att",
           "brk_send_end"}
\* a step of a timer thread: thr changes, and neither a handler nor quit acts
TimerStep == thr' # thr /\ uiPc' = uiPc /\ exited' = exited

\* C12: both flags are false at start; a timer step changes no flag and no
\* menu item; handle_attendance leaves is_on_break and handle_break_time
\* leaves is_working unchanged.
C12_FlagsFrame ==
  /\ ~is_working /\ ~is_on_break
  /\ [][/\ TimerStep => UNCHANGED <<flags, menu>>
        /\ uiPc \in AttPcs => is_on_break' = is_on_break
        /\ uiPc \in BrkPcs => is_working' = is_working]_vars

C12_Witness ==
  Returned /\ is_on_break /\ \E t \in TIDs : Alive(t) /\ thr[t].time >= 1

\* C13 (as claimed): a timer thread comes back to its read of is_working
\* (line 147) only from the one-second sleep (line 159).
C13_SleepBetweenPolls ==
  [][\A t \in TIDs :
       (thr'[t].pc = "check_working"
          /\ thr[t].pc \notin {"check_working", "unborn"})
         => thr[t].pc = "sleep"]_vars

\* C14 (as claimed): when work has ended, the handler has returned and every
\* timer thread has exited, the tray title is empty.
C14_TitleEmptyAfterWork ==
  (~is_working /\ Returned /\ ~exited /\ AliveTimers = {})
    => trayTitle = EmptyTitle

\* C15 (as claimed): while is_on_break is true and handle_break_time has
\* returned, the tray title is KYUKEI_CHU.
C15_BreakTitleStays ==
  (is_on_break /\ Returned) => trayTitle = BreakTitle

RECURSIVE Bracket(_)
\* the state of the bracket word (WorkStart (BreakStart BreakEnd)* WorkEnd)*
\* after reading the statuses p: "idle", "working", "break", or "bad"
Bracket(p) ==
  IF p = <<>> THEN "idle"
  ELSE LET before == Bracket(SubSeq(p, 1, Len(p) - 1))
           last == p[Len(p)]
       IN CASE before = "idle" /\ last = "GYOMU KAISHI" -> "working"
            [] before = "working" /\ last = "GYOMU SHURYO" -> "idle"
            [] before = "working" /\ last = "KYUKEI KAISHI" -> "break"
            [] before = "break" /\ last = "KYUKEI SHURYO" -> "working"
            [] OTHER -> "bad"

\* C16: the statuses sent so far are a prefix of a word of
\* (GYOMU KAISHI (KYUKEI KAISHI KYUKEI SHURYO)* GYOMU SHURYO)*.
C16_WellBracketed == Bracket(posts) # "bad"

C16_Witness ==
  /\ uiPc = "send_wait"
  /\ posts = <<"GYOMU KAISHI", "KYUKEI KAISHI", "KYUKEI SHURYO",
               "KYUKEI KAISHI">>

C18_PausedDuringBreak ==
  /\ [](\A t \in TIDs :
          /\ thr[t].time >= breakBase[t]
          /\ is_on_break => thr[t].time <= breakBase[t] + 1)
  /\ [][\A t \in TIDs :
          /\ (thr[t].pc = "check_break" /\ is_on_break /\ thr'[t] # thr[t]
                /\ exited' = exited)
               => /\ thr'[t].pc = "check_working"
                  /\ thr'[t].time = thr[t].time
                  /\ trayTitle' = trayTitle
          /\ thr'[t].time \in {thr[t].time, thr[t].time + 1}]_vars

C18_Witness ==
  /\ ~is_on_break /\ Returned
  /\ \E t \in TIDs : Alive(t) /\ breakBase[t] >= 1 /\ thr[t].time > breakBase[t]

====
